---- MODULE Spec2Model ----
(***************************************************************************)
(* NestedJSONLoader (langchain/document_loaders/nested_json_loader.py).    *)
(*                                                                         *)
(* load() reads a JSON file, flattens the parsed value into an insertion-  *)
(* ordered dict of path-derived keys (flatten_json, a recursive closure)   *)
(* and wraps every entry of that dict into a Document.                     *)
(*                                                                         *)
(* Python strings are modelled as sequences of one-character strings, so   *)
(* that concatenation (+) is \o and key_name[:-1] is a real slice.  The    *)
(* recursion of flatten_json is modelled by an explicit call stack; every  *)
(* action is one step of the single-threaded execution of load().          *)
(***************************************************************************)
EXTENDS Integers, Sequences, FiniteSets

VARIABLES
    file_path,      \* self.file_path (already resolved)
    metadata_func,  \* self._metadata_func: "None" or "callback"
    doc,            \* json.loads(self.file_path.read_text())
    pc,             \* position of load(): ready, flatten, emit, done, error
    stack,          \* call stack of flatten_json (last element is the running call)
    out,            \* the dict `out` of _flatten__nested_json, in insertion order
    docs,           \* the list `docs` of load()
    calls,          \* invocations of self._metadata_func made so far
    err             \* the exception that left load(), "" when none

vars == <<file_path, metadata_func, doc, pc, stack, out, docs, calls, err>>

(***************************************************************************)
(* Bounds of the model.                                                    *)
(***************************************************************************)
\* Largest number of nodes (containers and scalars) of a generated document;
\* ExampleDocs adds larger documents.
MaxNodes == 3

(***************************************************************************)
(* Parsed JSON values: what json.loads returns.                            *)
(***************************************************************************)
Str(s)  == [t |-> "str", s |-> s]
\* an int; the documents of the model hold non-negative ints only
Num(n)  == [t |-> "num", n |-> n]
Bool(b) == [t |-> "bool", b |-> b]
Null    == [t |-> "null"]
\* a list: its elements in index order
List(items) == [t |-> "list", items |-> items]
\* a dict: its (key, value) pairs in insertion order, keys pairwise distinct
Dict(items) == [t |-> "dict", items |-> items]
KV(k, v) == [k |-> k, v |-> v]

HasKey(d, k) == \E p \in 1..Len(d.items) : d.items[p].k = k
GetItem(d, k) == d.items[CHOOSE p \in 1..Len(d.items) : d.items[p].k = k].v

\* the literal 'identifier' of flatten_json
IDENTIFIER == <<"i", "d", "e", "n", "t", "i", "f", "i", "e", "r">>
\* the separator '_' appended after every path segment
SEP == <<"_">>

(***************************************************************************)
(* Python string and dict primitives used by the loader.                   *)
(***************************************************************************)
DIGITS == <<"0", "1", "2", "3", "4", "5", "6", "7", "8", "9">>

\* str(i) for a non-negative int
RECURSIVE str(_)
str(i) == IF i < 10 THEN <<DIGITS[i + 1]>>
          ELSE str(i \div 10) \o <<DIGITS[(i % 10) + 1]>>

\* a variant of DropLast: s.rstrip('_')
RECURSIVE StripAllSeparators(_)
StripAllSeparators(s) ==
    IF Len(s) > 0 /\ s[Len(s)] = "_"
    THEN StripAllSeparators(SubSeq(s, 1, Len(s) - 1))
    ELSE s

\* s[:-1]
DropLast(s) == IF Len(s) = 0 THEN <<>> ELSE SubSeq(s, 1, Len(s) - 1)

\* a variant of DictSetItem: d.setdefault(k, v), the first value stays
DictSetDefault(d, k, v) ==
    IF \E p \in 1..Len(d) : d[p].k = k THEN d ELSE Append(d, KV(k, v))

\* a variant of DictSetItem: d.pop(k, None); d[k] = v, the key moves to the end
DictSetItemAtEnd(d, k, v) ==
    Append(SelectSeq(d, LAMBDA e : e.k # k), KV(k, v))

\* d[k] = v on an insertion-ordered dict: an existing key keeps its position
DictSetItem(d, k, v) ==
    IF \E p \in 1..Len(d) : d[p].k = k
    THEN [p \in 1..Len(d) |-> IF d[p].k = k THEN KV(k, v) ELSE d[p]]
    ELSE Append(d, KV(k, v))

\* json.dumps of a str made of characters that need no escaping
DumpsStr(s) == <<"\"">> \o s \o <<"\"">>

\* json.dumps of a scalar
DumpsScalar(v) ==
    CASE v.t = "str"  -> DumpsStr(v.s)
      [] v.t = "num"  -> str(v.n)
      [] v.t = "bool" -> IF v.b THEN <<"t", "r", "u", "e">>
                                ELSE <<"f", "a", "l", "s", "e">>
      [] v.t = "null" -> <<"n", "u", "l", "l">>

\* json.dumps({key: value}) with the default separators
Dumps(e) == <<"{">> \o DumpsStr(e.k) \o <<":", " ">> \o DumpsScalar(e.v) \o <<"}">>

\* Document(page_content=..., metadata=...)
Document(text, metadata) == [page_content |-> text, metadata |-> metadata]

\* what a supplied metadata_func returns for (entry, default metadata)
MetadataFuncResult(entry, metadata) ==
    [source |-> metadata.source, seq_num |-> metadata.seq_num, entry |-> entry]

(***************************************************************************)
(* The identifier lookup of the list branch:                               *)
(*     try: identifier = a[a['identifier']]                                *)
(*     except: identifier = str(i)                                         *)
(* Raised stands for any exception of the subscript expression.            *)
(***************************************************************************)
Raised == [ok |-> FALSE]
Found(v) == [ok |-> TRUE, v |-> v]

Subscript(a) ==
    IF a.t # "dict" THEN Raised                        \* TypeError: str, list, number, None
    ELSE IF ~HasKey(a, IDENTIFIER) THEN Raised          \* KeyError: 'identifier'
    ELSE LET name == GetItem(a, IDENTIFIER) IN
         IF name.t \in {"dict", "list"} THEN Raised     \* TypeError: unhashable
         ELSE IF name.t = "str" /\ HasKey(a, name.s)
              THEN Found(GetItem(a, name.s))
              ELSE Raised                               \* KeyError: keys are strings

(***************************************************************************)
(* Documents the model is run on.                                          *)
(***************************************************************************)
Scalars == {Str(<<"a">>), Num(1), Null}
Keys == {<<>>, <<"a">>, <<"a", "_">>, IDENTIFIER}

\* the sequences of m pairwise distinct keys
KeySeqs(m) == {ks \in [1..m -> Keys] : \A p, q \in 1..m : p # q => ks[p] # ks[q]}

RECURSIVE TreesOfSize(_), Forests(_)
\* the sequences of values whose sizes sum to n
Forests(n) ==
    IF n = 0 THEN {<<>>}
    ELSE UNION {{<<v>> \o f : v \in TreesOfSize(k), f \in Forests(n - k)} : k \in 1..n}
\* the values made of exactly n nodes
TreesOfSize(n) ==
    IF n = 1 THEN Scalars \cup {List(<<>>), Dict(<<>>)}
    ELSE {List(f) : f \in Forests(n - 1)}
         \cup UNION {{Dict([p \in 1..Len(f) |-> KV(ks[p], f[p])]) : ks \in KeySeqs(Len(f))}
                     : f \in Forests(n - 1)}

GeneratedDocs == UNION {TreesOfSize(n) : n \in 1..MaxNodes}

kKey   == <<"k", "e", "y">>
kText  == <<"t", "e", "x", "t">>
kList  == <<"l", "i", "s", "t">>
kValue1 == <<"v", "a", "l", "u", "e", "1">>
kValue2 == <<"v", "a", "l", "u", "e", "2">>

\* the example of the class docstring
DocstringDoc ==
    Dict(<<KV(kKey, List(<<
        Dict(<<KV(IDENTIFIER, Str(kText)), KV(kText, Str(kValue1))>>),
        Dict(<<KV(IDENTIFIER, Str(kText)), KV(kText, Str(kValue2))>>)>>))>>)

\* {"list": [10, 20]}
ListDoc == Dict(<<KV(kList, List(<<Num(10), Num(20)>>))>>)

\* [{"identifier":"a","a":"x"}, 1, {"identifier":"b","a":null}, [true], {"a":false}]
MixedDoc ==
    List(<<Dict(<<KV(IDENTIFIER, Str(<<"a">>)), KV(<<"a">>, Str(<<"x">>))>>),
           Num(1),
           Dict(<<KV(IDENTIFIER, Str(<<"b">>)), KV(<<"a">>, Null)>>),
           List(<<Bool(TRUE)>>),
           Dict(<<KV(<<"a">>, Bool(FALSE))>>)>>)

\* {"a": {"": 1, "a": 2}, "a_": 3}
ObjectCollisionDoc ==
    Dict(<<KV(<<"a">>, Dict(<<KV(<<>>, Num(1)), KV(<<"a">>, Num(2))>>)),
           KV(<<"a", "_">>, Num(3))>>)

\* [{"identifier":"a","a":"v","b":1}, {"identifier":"a","a":"v","b":2}]
SameIdentifierDoc ==
    List(<<Dict(<<KV(IDENTIFIER, Str(<<"a">>)), KV(<<"a">>, Str(<<"v">>)), KV(<<"b">>, Num(1))>>),
           Dict(<<KV(IDENTIFIER, Str(<<"a">>)), KV(<<"a">>, Str(<<"v">>)), KV(<<"b">>, Num(2))>>)>>)

\* [{"a": 1}, {"identifier":"a","a":"0"}]
IndexCollisionDoc ==
    List(<<Dict(<<KV(<<"a">>, Num(1))>>),
           Dict(<<KV(IDENTIFIER, Str(<<"a">>)), KV(<<"a">>, Str(<<"0">>))>>)>>)

\* [{"identifier":"identifier","a":1}]
SelfIdentifierDoc ==
    List(<<Dict(<<KV(IDENTIFIER, Str(IDENTIFIER)), KV(<<"a">>, Num(1))>>)>>)

\* [null, null, null, null, null, null, null, null, null, null, null]
LongListDoc == List([p \in 1..11 |-> Null])

\* [1, {"identifier":"a","a":true}]
LateTypeErrorDoc ==
    List(<<Num(1), Dict(<<KV(IDENTIFIER, Str(<<"a">>)), KV(<<"a">>, Bool(TRUE))>>)>>)

ExampleDocs == {DocstringDoc, ListDoc, MixedDoc, ObjectCollisionDoc, SameIdentifierDoc,
                IndexCollisionDoc, SelfIdentifierDoc, LongListDoc, LateTypeErrorDoc}

Docs == GeneratedDocs \cup ExampleDocs

FilePaths == {"/data/a.json"}

(***************************************************************************)
(* __init__ has run: the loader holds file_path and metadata_func; load()  *)
(* has not been called.                                                    *)
(***************************************************************************)
Init ==
    /\ file_path \in FilePaths
    /\ metadata_func \in {"None", "callback"}
    /\ doc \in Docs
    /\ pc = "ready"
    /\ stack = <<>>
    /\ out = <<>>
    /\ docs = <<>>
    /\ calls = <<>>
    /\ err = ""

(***************************************************************************)
(* load(), up to the first call of flatten_json.                           *)
(***************************************************************************)
Frame(json_data, key_name, loc) ==
    [json_data |-> json_data, key_name |-> key_name, pos |-> 1, loc |-> loc]

Top == stack[Len(stack)]
Pop == SubSeq(stack, 1, Len(stack) - 1)
\* the running call moves on to its next item and calls flatten_json on `child`
Call(child, key_name) ==
    Append([stack EXCEPT ![Len(stack)].pos = @ + 1],
           Frame(child, key_name, Append(Top.loc, Top.pos)))

Load ==
    /\ pc = "ready"
    /\ pc' = "flatten"
    /\ stack' = <<Frame(doc, <<>>, <<>>)>>
    /\ UNCHANGED <<file_path, metadata_func, doc, out, docs, calls, err>>

(***************************************************************************)
(* flatten_json: one action per branch.                                    *)
(***************************************************************************)
\* a variant of FlattenDictSkip: `break` instead of `continue`
FlattenDictBreak ==
    /\ pc = "flatten" /\ stack # <<>>
    /\ Top.json_data.t = "dict"
    /\ Top.pos <= Len(Top.json_data.items)
    /\ Top.json_data.items[Top.pos].k = IDENTIFIER
    /\ stack' = [stack EXCEPT ![Len(stack)].pos = Len(Top.json_data.items) + 1]
    /\ UNCHANGED <<file_path, metadata_func, doc, pc, out, docs, calls, err>>

\* dict branch, `if a == 'identifier': continue`
FlattenDictSkip ==
    /\ pc = "flatten" /\ stack # <<>>
    /\ Top.json_data.t = "dict"
    /\ Top.pos <= Len(Top.json_data.items)
    /\ Top.json_data.items[Top.pos].k = IDENTIFIER
    /\ stack' = [stack EXCEPT ![Len(stack)].pos = @ + 1]
    /\ UNCHANGED <<file_path, metadata_func, doc, pc, out, docs, calls, err>>

\* dict branch, flatten_json(json_data[a], key_name + a + '_')
FlattenDictRecurse ==
    /\ pc = "flatten" /\ stack # <<>>
    /\ Top.json_data.t = "dict"
    /\ Top.pos <= Len(Top.json_data.items)
    /\ LET item == Top.json_data.items[Top.pos] IN
        /\ item.k # IDENTIFIER
        /\ stack' = Call(item.v, Top.key_name \o item.k \o SEP)
    /\ UNCHANGED <<file_path, metadata_func, doc, pc, out, docs, calls, err>>

\* a variant of FlattenListIdentifier: the index is used although the lookup succeeded
FlattenListIdentifierIgnored ==
    /\ pc = "flatten" /\ stack # <<>>
    /\ Top.json_data.t = "list"
    /\ Top.pos <= Len(Top.json_data.items)
    /\ LET a == Top.json_data.items[Top.pos]
           r == Subscript(a) IN
        /\ r.ok
        /\ r.v.t = "str"
        /\ stack' = Call(a, Top.key_name \o str(Top.pos - 1) \o SEP)
    /\ UNCHANGED <<file_path, metadata_func, doc, pc, out, docs, calls, err>>

\* list branch, the lookup succeeded and gave a str
FlattenListIdentifier ==
    /\ pc = "flatten" /\ stack # <<>>
    /\ Top.json_data.t = "list"
    /\ Top.pos <= Len(Top.json_data.items)
    /\ LET a == Top.json_data.items[Top.pos]
           r == Subscript(a) IN
        /\ r.ok
        /\ r.v.t = "str"
        /\ stack' = Call(a, Top.key_name \o r.v.s \o SEP)
    /\ UNCHANGED <<file_path, metadata_func, doc, pc, out, docs, calls, err>>

\* list branch, the lookup succeeded and gave something that is not a str:
\* key_name + identifier raises TypeError outside the try
FlattenListTypeError ==
    /\ pc = "flatten" /\ stack # <<>>
    /\ Top.json_data.t = "list"
    /\ Top.pos <= Len(Top.json_data.items)
    /\ LET r == Subscript(Top.json_data.items[Top.pos]) IN
        /\ r.ok
        /\ r.v.t # "str"
    /\ pc' = "error"
    /\ err' = "TypeError"
    /\ UNCHANGED <<file_path, metadata_func, doc, stack, out, docs, calls>>

\* a variant of FlattenListFallback: i counts only the elements whose lookup raised
FlattenListFallbackOwnCounter ==
    /\ pc = "flatten" /\ stack # <<>>
    /\ Top.json_data.t = "list"
    /\ Top.pos <= Len(Top.json_data.items)
    /\ LET a == Top.json_data.items[Top.pos]
           i == Cardinality({p \in 1..(Top.pos - 1) : ~Subscript(Top.json_data.items[p]).ok}) IN
        /\ ~Subscript(a).ok
        /\ stack' = Call(a, Top.key_name \o str(i) \o SEP)
    /\ UNCHANGED <<file_path, metadata_func, doc, pc, out, docs, calls, err>>

\* list branch, the lookup raised: identifier = str(i)
FlattenListFallback ==
    /\ pc = "flatten" /\ stack # <<>>
    /\ Top.json_data.t = "list"
    /\ Top.pos <= Len(Top.json_data.items)
    /\ LET a == Top.json_data.items[Top.pos]
           i == Top.pos - 1 IN
        /\ ~Subscript(a).ok
        /\ stack' = Call(a, Top.key_name \o str(i) \o SEP)
    /\ UNCHANGED <<file_path, metadata_func, doc, pc, out, docs, calls, err>>

\* else branch: out[key_name[:-1]] = json_data
FlattenScalar ==
    /\ pc = "flatten" /\ stack # <<>>
    /\ Top.json_data.t \notin {"dict", "list"}
    /\ out' = DictSetItem(out, DropLast(Top.key_name), Top.json_data)
    /\ stack' = Pop
    /\ UNCHANGED <<file_path, metadata_func, doc, pc, docs, calls, err>>

\* the for loop of a dict or list is exhausted: the call returns
FlattenReturn ==
    /\ pc = "flatten" /\ stack # <<>>
    /\ Top.json_data.t \in {"dict", "list"}
    /\ Top.pos > Len(Top.json_data.items)
    /\ stack' = Pop
    /\ UNCHANGED <<file_path, metadata_func, doc, pc, out, docs, calls, err>>

\* _flatten__nested_json returns out
FlattenDone ==
    /\ pc = "flatten" /\ stack = <<>>
    /\ pc' = "emit"
    /\ UNCHANGED <<file_path, metadata_func, doc, stack, out, docs, calls, err>>

(***************************************************************************)
(* The loop of load() over enumerate(data.items(), 1).                     *)
(***************************************************************************)
\* a variant of EmitDocument: enumerate(data.items()) without the start value 1
EmitDocumentFromZero ==
    /\ pc = "emit"
    /\ Len(docs) < Len(out)
    /\ LET i == Len(docs)
           sample == out[i + 1]
           metadata == [source |-> file_path, seq_num |-> i]
           text == Dumps(sample) IN
        docs' = Append(docs, Document(text, metadata))
    /\ UNCHANGED <<file_path, metadata_func, doc, pc, stack, out, calls, err>>

EmitDocument ==
    /\ pc = "emit"
    /\ Len(docs) < Len(out)
    /\ LET i == Len(docs) + 1
           sample == out[i]
           metadata == [source |-> file_path, seq_num |-> i]
           \* dict([text]) has one entry, so `or ""` never applies and the
           \* dict is dumped
           text == Dumps(sample) IN
        docs' = Append(docs, Document(text, metadata))
    /\ UNCHANGED <<file_path, metadata_func, doc, pc, stack, out, calls, err>>

\* return docs
LoadReturn ==
    /\ pc = "emit"
    /\ Len(docs) = Len(out)
    /\ pc' = "done"
    /\ UNCHANGED <<file_path, metadata_func, doc, stack, out, docs, calls, err>>

Next ==
    \/ Load
    \/ FlattenDictSkip
    \/ FlattenDictRecurse
    \/ FlattenListIdentifier
    \/ FlattenListTypeError
    \/ FlattenListFallback
    \/ FlattenScalar
    \/ FlattenReturn
    \/ FlattenDone
    \/ EmitDocument
    \/ LoadReturn

Spec == Init /\ [][Next]_vars

(***************************************************************************)
(* The flattening rules of the specification, stated on the input tree     *)
(* alone: locations, path segments and key paths.  Nothing below reads the *)
(* call stack.                                                             *)
(***************************************************************************)
IsScalar(v) == v.t \notin {"dict", "list"}
Child(v, p) == IF v.t = "dict" THEN v.items[p].v ELSE v.items[p]

\* the node reached from v by the child positions of loc
RECURSIVE NodeAt(_, _)
NodeAt(v, loc) == IF loc = <<>> THEN v ELSE NodeAt(Child(v, Head(loc)), Tail(loc))

\* the positions of a container that the traversal enters
Entered(v) == {p \in 1..Len(v.items) : ~(v.t = "dict" /\ v.items[p].k = IDENTIFIER)}

\* the locations of the scalars that are not below an "identifier" field
RECURSIVE LeafLocs(_)
LeafLocs(v) ==
    IF IsScalar(v) THEN {<<>>}
    ELSE UNION {{<<p>> \o l : l \in LeafLocs(Child(v, p))} : p \in Entered(v)}

\* l1 is visited before l2 (depth first, items in order)
LocLess(l1, l2) ==
    \E k \in 1..Len(l1) :
        /\ k <= Len(l2)
        /\ l1[k] < l2[k]
        /\ \A j \in 1..(k - 1) : l1[j] = l2[j]

\* the element names one of its own fields through its "identifier" field
HasResolvableIdentifier(e) ==
    /\ e.t = "dict"
    /\ \E p, q \in 1..Len(e.items) :
        /\ e.items[p].k = IDENTIFIER
        /\ e.items[p].v.t = "str"
        /\ e.items[q].k = e.items[p].v.s
\* the value of the field it names
IdentifierValue(e) ==
    LET p == CHOOSE p \in 1..Len(e.items) : e.items[p].k = IDENTIFIER
        q == CHOOSE q \in 1..Len(e.items) : e.items[q].k = e.items[p].v.s
    IN e.items[q].v
ResolvesToStr(e) == HasResolvableIdentifier(e) /\ IdentifierValue(e).t = "str"

\* decimal notation, defined by the number a digit string denotes
DigitChars == {DIGITS[d] : d \in 1..Len(DIGITS)}
DigitValue(c) == (CHOOSE d \in 1..Len(DIGITS) : DIGITS[d] = c) - 1
RECURSIVE DecimalValue(_)
DecimalValue(s) ==
    IF s = <<>> THEN 0
    ELSE DecimalValue(SubSeq(s, 1, Len(s) - 1)) * 10 + DigitValue(s[Len(s)])
DigitStrings == UNION {[1..m -> DigitChars] : m \in {1, 2}}
DecimalString(n) ==
    CHOOSE s \in DigitStrings :
        /\ DecimalValue(s) = n
        /\ (Len(s) > 1 => s[1] # "0")

\* the path segment of the item at position p of a container
Segment(parent, p) ==
    IF parent.t = "dict" THEN parent.items[p].k
    ELSE IF ResolvesToStr(parent.items[p]) THEN IdentifierValue(parent.items[p]).s
    ELSE DecimalString(p - 1)

RECURSIVE Segments(_, _)
Segments(v, loc) ==
    IF loc = <<>> THEN <<>>
    ELSE <<Segment(v, Head(loc))>> \o Segments(Child(v, Head(loc)), Tail(loc))

\* the segments joined by the separator
RECURSIVE JoinSegments(_)
JoinSegments(segs) ==
    IF segs = <<>> THEN <<>>
    ELSE IF Len(segs) = 1 THEN segs[1]
    ELSE segs[1] \o SEP \o JoinSegments(Tail(segs))

\* the accumulated key path: every segment followed by the separator
RECURSIVE PathWithSeparators(_)
PathWithSeparators(segs) ==
    IF segs = <<>> THEN <<>> ELSE segs[1] \o SEP \o PathWithSeparators(Tail(segs))

ExpectedKey(loc) == JoinSegments(Segments(doc, loc))

EndsWithSep(s) == Len(s) > 0 /\ s[Len(s)] = "_"

\* the visited leaves whose key path is k
LocsOfKey(k) == {l \in LeafLocs(doc) : ExpectedKey(l) = k}
IsFirstOf(l, locs) == l \in locs /\ \A o \in locs : o = l \/ LocLess(l, o)
IsLastOf(l, locs) == l \in locs /\ \A o \in locs : o = l \/ LocLess(o, l)

\* the list steps of a location: k such that step k enters a list element
ListSteps(l) == {k \in 1..Len(l) : NodeAt(doc, SubSeq(l, 1, k - 1)).t = "list"}
ElementAt(l, k) == NodeAt(doc, SubSeq(l, 1, k))

\* every element of every list of v has a resolvable identifier
RECURSIVE AllElementsResolvable(_)
AllElementsResolvable(v) ==
    IF IsScalar(v) THEN TRUE
    ELSE \A p \in 1..Len(v.items) :
            /\ v.t = "list" => HasResolvableIdentifier(v.items[p])
            /\ AllElementsResolvable(Child(v, p))
\* and the identifier resolves to a string
RECURSIVE AllElementsResolveToStr(_)
AllElementsResolveToStr(v) ==
    IF IsScalar(v) THEN TRUE
    ELSE \A p \in 1..Len(v.items) :
            /\ v.t = "list" => ResolvesToStr(v.items[p])
            /\ AllElementsResolveToStr(Child(v, p))
\* some list element resolves its identifier to something that is not a string
RECURSIVE SomeElementResolvesToNonStr(_)
SomeElementResolvesToNonStr(v) ==
    IF IsScalar(v) THEN FALSE
    ELSE \E p \in 1..Len(v.items) :
            \/ v.t = "list" /\ HasResolvableIdentifier(v.items[p]) /\ ~ResolvesToStr(v.items[p])
            \/ SomeElementResolvesToNonStr(Child(v, p))
\* some list of v is not empty
RECURSIVE HasListElement(_)
HasListElement(v) ==
    IF IsScalar(v) THEN FALSE
    ELSE \E p \in 1..Len(v.items) : v.t = "list" \/ HasListElement(Child(v, p))

CollisionFree == \A l1, l2 \in LeafLocs(doc) : l1 # l2 => ExpectedKey(l1) # ExpectedKey(l2)

\* _flatten__nested_json has returned
Returned == pc \in {"emit", "done"}

\* the records whose payload is the entry (k, v)
RecordsOf(k, v) == {i \in 1..Len(docs) : docs[i].page_content = Dumps(KV(k, v))}

(***************************************************************************)
(* Claims.                                                                 *)
(***************************************************************************)

\* C1: when the loader was constructed with a metadata_func, load calls it
\* exactly once per record, in emission order, with (the flattened entry, the
\* default metadata), and every record carries what it returned.
C1_CallbackDecidesMetadata ==
    (pc = "done" /\ metadata_func = "callback") =>
        /\ Len(calls) = Len(docs)
        /\ \A i \in 1..Len(docs) :
            LET default == [source |-> file_path, seq_num |-> i] IN
            /\ calls[i] = <<out[i], default>>
            /\ docs[i].metadata = MetadataFuncResult(out[i], default)

\* C2: the record of an entry whose value is null has the empty string as
\* its payload.
C2_NullPayloadIsEmpty ==
    pc = "done" =>
        \A i \in 1..Len(out) : out[i].v = Null => docs[i].page_content = <<>>

\* C3: flattening raises no error, whatever the parsed value is.
C3_FlattenIsTotal == pc # "error"

\* C4 as claimed: no key of the flattened mapping ends with the separator.
C4_NoKeyEndsWithSeparator ==
    Returned => \A p \in 1..Len(out) : ~EndsWithSep(out[p].k)

\* C4 as amended: every key of the flattened mapping is the accumulated key
\* path of a visited leaf with exactly one trailing separator removed; it ends
\* with the separator only when the last segment of that path is empty or
\* itself ends with the separator.
C4_KeyIsPathMinusOneSeparator ==
    Returned =>
        \A p \in 1..Len(out) :
            \E l \in LeafLocs(doc) :
                LET segs == Segments(doc, l) IN
                /\ l = <<>> => out[p].k = <<>>
                /\ l # <<>> => out[p].k \o SEP = PathWithSeparators(segs)
                /\ EndsWithSep(out[p].k) =>
                    (segs[Len(segs)] = <<>> \/ EndsWithSep(segs[Len(segs)]))

C4_Witness ==
    /\ pc = "done"
    /\ \E p \in 1..Len(out) : EndsWithSep(out[p].k)
    /\ \E p \in 1..Len(out) : out[p].k # <<>> /\ ~EndsWithSep(out[p].k)

C6_IdentifierNamesTheSegment ==
    Returned =>
        /\ \A l \in LeafLocs(doc) : \A k \in ListSteps(l) :
            ResolvesToStr(ElementAt(l, k)) =>
                LET s == IdentifierValue(ElementAt(l, k)).s
                    key == JoinSegments([Segments(doc, l) EXCEPT ![k] = s])
                IN \E p \in 1..Len(out) : out[p].k = key
        /\ \A p \in 1..Len(out) :
            \E l \in LeafLocs(doc) : out[p].k = ExpectedKey(l)
        /\ doc = DocstringDoc =>
            out = <<KV(kKey \o SEP \o kValue1 \o SEP \o kText, Str(kValue1)),
                    KV(kKey \o SEP \o kValue2 \o SEP \o kText, Str(kValue2))>>

C6_Witness ==
    /\ pc = "done"
    /\ \E l \in LeafLocs(doc) : \E k \in ListSteps(l) :
        /\ ResolvesToStr(ElementAt(l, k))
        /\ l[k] >= 2
        /\ HasKey(ElementAt(l, k), IDENTIFIER)
        /\ Len(out) >= 2

\* C7: a list element whose identifier lookup is not possible (a scalar, a
\* list, a dict without "identifier", or one whose "identifier" value is not
\* one of its keys) raises nothing, and its segment is the decimal string of
\* its zero-based position among all elements of the list;
\* {"list": [10, 20]} flattens to {"list_0": 10, "list_1": 20}.
C7_FallbackIsTheIndex ==
    /\ pc = "error" => SomeElementResolvesToNonStr(doc)
    /\ Returned =>
        /\ \A l \in LeafLocs(doc) : \A k \in ListSteps(l) :
            ~HasResolvableIdentifier(ElementAt(l, k)) =>
                LET key == JoinSegments([Segments(doc, l) EXCEPT
                                            ![k] = DecimalString(l[k] - 1)])
                IN \E p \in 1..Len(out) : out[p].k = key
        /\ doc = ListDoc =>
            out = <<KV(kList \o SEP \o <<"0">>, Num(10)),
                    KV(kList \o SEP \o <<"1">>, Num(20))>>

C7_Witness ==
    /\ pc = "done"
    /\ \E l \in LeafLocs(doc) : \E k \in ListSteps(l) :
        /\ ~HasResolvableIdentifier(ElementAt(l, k))
        /\ l[k] >= 2
        /\ ResolvesToStr(NodeAt(doc, SubSeq(l, 1, k - 1)).items[l[k] - 1])

\* C8: when several visited leaves produce the same key path, the flattened
\* mapping holds exactly one entry for it, and its value is that of the leaf
\* visited last (depth first, dict items and list elements in order).
C8_LastWriteWins ==
    Returned =>
        \A l \in LeafLocs(doc) :
            LET k == ExpectedKey(l) IN
            /\ Cardinality({p \in 1..Len(out) : out[p].k = k}) = 1
            /\ \A p \in 1..Len(out) : out[p].k = k =>
                \E last \in LeafLocs(doc) :
                    /\ IsLastOf(last, LocsOfKey(k))
                    /\ out[p].v = NodeAt(doc, last)

C8_Witness ==
    /\ pc = "done"
    /\ \E l1, l2 \in LeafLocs(doc) :
        /\ LocLess(l1, l2)
        /\ ExpectedKey(l1) = ExpectedKey(l2)
        /\ NodeAt(doc, l1) # NodeAt(doc, l2)

\* C9: load emits one record per entry of the flattened mapping, in mapping
\* order; the sequence numbers are 1, 2, ..., N where N is the number of
\* distinct key paths, and every record carries the loader's file path as its
\* source.
C9_OneRecordPerEntry ==
    /\ pc = "emit" => Len(docs) <= Len(out)
    /\ pc \in {"emit", "done"} =>
        \A i \in 1..Len(docs) :
            /\ docs[i].page_content = Dumps(out[i])
            /\ docs[i].metadata.seq_num = i
            /\ docs[i].metadata.source = file_path
    /\ pc = "done" =>
        /\ Len(docs) = Len(out)
        /\ Len(docs) = Cardinality({ExpectedKey(l) : l \in LeafLocs(doc)})

C9_Witness ==
    /\ pc = "done"
    /\ Len(docs) >= 2
    /\ ~CollisionFree

\* C10: a key path written more than once keeps the mapping position of its
\* first write and takes the value of its last write: records come in the
\* order in which the distinct key paths are first visited, and the record of
\* a collided key carries the value of the last visited leaf.
C10_FirstPositionLastValue ==
    pc = "done" =>
        /\ \A i, j \in 1..Len(docs) : i < j =>
            \E fi, fj \in LeafLocs(doc) :
                /\ IsFirstOf(fi, LocsOfKey(out[i].k))
                /\ IsFirstOf(fj, LocsOfKey(out[j].k))
                /\ LocLess(fi, fj)
        /\ \A i \in 1..Len(docs) :
            \E last \in LeafLocs(doc) :
                /\ IsLastOf(last, LocsOfKey(out[i].k))
                /\ docs[i].metadata.seq_num = i
                /\ docs[i].page_content = Dumps(KV(out[i].k, NodeAt(doc, last)))

\* a key path is written, then another one, then the first again
C10_Witness ==
    /\ pc = "done"
    /\ \E l1, l2, l3 \in LeafLocs(doc) :
        /\ LocLess(l1, l2) /\ LocLess(l2, l3)
        /\ ExpectedKey(l1) = ExpectedKey(l3)
        /\ ExpectedKey(l1) # ExpectedKey(l2)
        /\ NodeAt(doc, l1) # NodeAt(doc, l3)
        /\ IsFirstOf(l2, LocsOfKey(ExpectedKey(l2)))

====
